---- MODULE Spec2Model ----
(***************************************************************************)
(* Model of the owata configuration manager (package config): path         *)
(* resolution, load precedence between the local and the global file,      *)
(* JSON persistence of the Config record and template creation.            *)
(* The file system is two config paths, the global directory and $HOME.    *)
(***************************************************************************)
EXTENDS Integers, Sequences, FiniteSets, TLC

VARIABLES fs, gdir, homeOK, prev, res

vars == <<fs, gdir, homeOK, prev, res>>

(***************************************************************************)
(* Bounds                                                                  *)
(***************************************************************************)
\* total number of characters over the three fields of a Config handed to
\* SaveToPath in the round-trip specification
MaxLen == 3

\* length of the longest webhook URL handed to DisplayConfig
MaxURL == 12

\* number of members of the longest hand-written config file
MaxMembers == 2

\* length of the longest argument list handed to Parse
MaxArgs == 3

(***************************************************************************)
(* Strings.  A Go string is a byte sequence; the alphabet keeps one        *)
(* character of each class encoding/json treats differently.               *)
(***************************************************************************)
PLAIN == "a"        \* printable ASCII, written as is
QUOTE == "\""       \* must be escaped inside a JSON string
BADBYTE == "xff"    \* a byte that is not valid UTF-8
UFFFD == "ufffd"    \* the Unicode replacement character (valid UTF-8)

Char == {PLAIN, QUOTE, BADBYTE, UFFFD}

RECURSIVE StrUpTo(_)
StrUpTo(n) ==
  IF n <= 0 THEN {<<>>}
  ELSE StrUpTo(n - 1) \cup {Append(s, c) : s \in StrUpTo(n - 1), c \in Char}

(***************************************************************************)
(* Config (config.go:17-21)                                                *)
(***************************************************************************)
Config(w, u, a) == [WebhookURL |-> w, Username |-> u, AvatarURL |-> a]

EmptyConfig == Config(<<>>, <<>>, <<>>)

CfgLen(c) == Len(c.WebhookURL) + Len(c.Username) + Len(c.AvatarURL)

\* every Config whose fields hold at most n characters altogether
ConfigsUpTo(n) ==
  UNION {UNION {{Config(w, u, a) : a \in StrUpTo(n - Len(w) - Len(u))}
                : u \in StrUpTo(n - Len(w))}
         : w \in StrUpTo(n)}

\* the Configs the callers hand to Save and SaveToPath: the template's
\* value, a webhook alone, fields that need escaping, and fields that are
\* not valid UTF-8
Configs ==
  {EmptyConfig,
   Config(<<PLAIN>>, <<>>, <<>>),
   Config(<<QUOTE>>, <<PLAIN>>, <<>>),
   Config(<<>>, <<BADBYTE>>, <<UFFFD>>)}

\* a *Config result: <<>> is nil, <<c>> points to c
Nil == <<>>
Ptr(c) == <<c>>

(***************************************************************************)
(* JSON text.  A file's text is either not JSON at all, or an object: the  *)
(* sequence of its members, each a key and a string literal or a number.    *)
(* A string literal is a sequence of units: a character written as is, or  *)
(* an escape sequence.                                                     *)
(***************************************************************************)
Lit(c) == [esc |-> FALSE, c |-> c]
Esc(c) == [esc |-> TRUE, c |-> c]

KEY_WEBHOOK == "webhook_url"
KEY_USERNAME == "username"
KEY_AVATAR == "avatar_url"
\* a key that differs from a json tag in case only, and a key that names no
\* field
KEY_USERNAME_UPPER == "USERNAME"
KEY_EXTRA == "extra"

Keys == {KEY_WEBHOOK, KEY_USERNAME, KEY_AVATAR, KEY_USERNAME_UPPER, KEY_EXTRA}

Member(k, v) == [key |-> k, val |-> v, str |-> TRUE]

\* a member whose value is a JSON number
NumberMember(k) == [key |-> k, val |-> <<>>, str |-> FALSE]

Object(ms) == [wf |-> TRUE, members |-> ms]

\* the bytes "invalid json" (config_test.go:85)
Garbage == [wf |-> FALSE, members |-> <<>>]

\* encoding/json string encoder: a quote is written as the escape of the
\* quote, a byte that is not valid UTF-8 as the escape of U+FFFD, and
\* everything else in the alphabet is copied
EncodeChar(c) ==
  IF c = QUOTE THEN Esc(QUOTE)
  ELSE IF c = BADBYTE THEN Esc(UFFFD)
  ELSE Lit(c)

EncodeString(s) == [i \in 1..Len(s) |-> EncodeChar(s[i])]

\* encoding/json string decoder (unquote): an escape yields the character
\* it names, a raw byte that is not valid UTF-8 is replaced by U+FFFD
ValidUnit(u) ==
  IF u.esc THEN u.c \in {QUOTE, UFFFD} ELSE u.c \in {PLAIN, BADBYTE, UFFFD}

DecodeUnit(u) ==
  IF u.esc THEN u.c
  ELSE IF u.c = BADBYTE THEN UFFFD
  ELSE u.c

DecodeString(v) == [i \in 1..Len(v) |-> DecodeUnit(v[i])]

ValidLiteral(v) == \A i \in 1..Len(v) : ValidUnit(v[i])

\* MarshalIndent for a Config whose Username and AvatarURL tags are exchanged
MarshalIndent_SwappedTags(config) ==
  Object(<<Member(KEY_WEBHOOK, EncodeString(config.WebhookURL)),
           Member(KEY_AVATAR, EncodeString(config.Username)),
           Member(KEY_USERNAME, EncodeString(config.AvatarURL))>>)

\* json.MarshalIndent(config, "", "  ") (config.go:133): the three fields in
\* declaration order under their json tags
MarshalIndent(config) ==
  Object(<<Member(KEY_WEBHOOK, EncodeString(config.WebhookURL)),
           Member(KEY_USERNAME, EncodeString(config.Username)),
           Member(KEY_AVATAR, EncodeString(config.AvatarURL))>>)

\* json.Unmarshal(data, &config) (config.go:103-106): members are applied in
\* order to a zero Config; a key selects the field whose json tag it equals
\* or equals when case is ignored, a key that selects no field is skipped
\* with its value, and a number where a field's string is expected is an
\* error
SyntaxOK(text) ==
  text.wf /\ \A i \in 1..Len(text.members) : ValidLiteral(text.members[i].val)

\* the json tag of the field a key selects, "" when it selects none
FieldOf(key) ==
  IF key \in {KEY_WEBHOOK, KEY_USERNAME, KEY_AVATAR} THEN key
  ELSE IF key = KEY_USERNAME_UPPER THEN KEY_USERNAME
  ELSE ""

TypesOK(text) ==
  \A i \in 1..Len(text.members) :
    FieldOf(text.members[i].key) # "" => text.members[i].str

RECURSIVE ApplyMembers(_, _)
ApplyMembers(ms, config) ==
  IF ms = <<>> THEN config
  ELSE LET m == Head(ms)
           v == DecodeString(m.val)
           f == FieldOf(m.key)
           next == IF f = KEY_WEBHOOK THEN [config EXCEPT !.WebhookURL = v]
                   ELSE IF f = KEY_USERNAME THEN [config EXCEPT !.Username = v]
                   ELSE IF f = KEY_AVATAR THEN [config EXCEPT !.AvatarURL = v]
                   ELSE config
       IN ApplyMembers(Tail(ms), next)

\* json.Unmarshal with DisallowUnknownFields
Unmarshal_DisallowUnknownFields(text) ==
  IF /\ SyntaxOK(text) /\ TypesOK(text)
     /\ \A i \in 1..Len(text.members) : FieldOf(text.members[i].key) # ""
  THEN [ok |-> TRUE, config |-> ApplyMembers(text.members, EmptyConfig)]
  ELSE [ok |-> FALSE, config |-> EmptyConfig]

Unmarshal(text) ==
  IF SyntaxOK(text) /\ TypesOK(text)
  THEN [ok |-> TRUE, config |-> ApplyMembers(text.members, EmptyConfig)]
  ELSE [ok |-> FALSE, config |-> EmptyConfig]

(***************************************************************************)
(* The file system seen by the manager.  env is the record                 *)
(* [fs, gdir, homeOK]: the node at each config path, the state of the      *)
(* directory that holds the global file, and whether os.UserHomeDir        *)
(* succeeds.                                                               *)
(***************************************************************************)
\* ConfigFileName (config.go:12), relative to the working directory
LocalPath == "owata-config.json"
GlobalDir == "$HOME/.config"
GlobalPath == "$HOME/.config/owata-config.json"
WorkDir == "."

Paths == {LocalPath, GlobalPath}

Absent == [kind |-> "absent", text |-> Garbage]
Directory == [kind |-> "dir", text |-> Garbage]
\* a node whose stat, read and write fail with an error other than ENOENT
Denied == [kind |-> "denied", text |-> Garbage]
File(text) == [kind |-> "file", text |-> text]

Env == [fs |-> fs, gdir |-> gdir, homeOK |-> homeOK]

\* filepath.Join
Join(dir, name) == dir \o "/" \o name

\* filepath.Dir
Dir(path) == IF path = GlobalPath THEN GlobalDir ELSE WorkDir

\* os.Stat: nothing exists below a directory that does not exist
Stat(env, path) ==
  IF path = GlobalPath /\ env.gdir # "present" THEN "absent" ELSE env.fs[path].kind

\* os.ReadFile
ReadFile(env, path) ==
  IF Stat(env, path) = "file"
  THEN [ok |-> TRUE, data |-> env.fs[path].text]
  ELSE [ok |-> FALSE, data |-> Garbage]

\* os.WriteFile: creates or truncates a regular file in an existing directory
WriteFile(env, path, data) ==
  IF Stat(env, path) \in {"absent", "file"} /\ (path = GlobalPath => env.gdir = "present")
  THEN [ok |-> TRUE, env |-> [env EXCEPT !.fs[path] = File(data)]]
  ELSE [ok |-> FALSE, env |-> env]

\* os.MkdirAll
MkdirAll(env, dirPath) ==
  IF dirPath = WorkDir THEN [ok |-> TRUE, env |-> env]
  ELSE IF env.gdir = "blocked" THEN [ok |-> FALSE, env |-> env]
  ELSE [ok |-> TRUE, env |-> [env EXCEPT !.gdir = "present"]]

(***************************************************************************)
(* Manager (config.go)                                                     *)
(***************************************************************************)
\* fileExists that takes every failed stat for an existing file
fileExists_AnyStatError(env, path) ==
  LET k == Stat(env, path)
  IN IF k \in {"absent", "denied"} THEN TRUE ELSE k # "dir"

\* fileExists without the IsDir test
fileExists_DirCounts(env, path) ==
  LET k == Stat(env, path)
  IN IF k = "absent" THEN FALSE ELSE TRUE

\* fileExists (config.go:218-224)
fileExists(env, path) ==
  LET k == Stat(env, path)
  IN IF k = "absent" THEN FALSE      \* os.IsNotExist(err)
     ELSE IF k = "denied" THEN TRUE  \* "Return true for permission errors, etc."
     ELSE k # "dir"

\* Manager.GetPath (config.go:36-46)
GetPath(env, global) ==
  IF global
  THEN IF ~env.homeOK THEN LocalPath ELSE GlobalPath
  ELSE LocalPath

\* GetPathWithError with the fallback of GetPath
GetPathWithError_FallsBack(env, global) ==
  [path |-> IF global /\ env.homeOK THEN GlobalPath ELSE LocalPath, err |-> "none"]

\* Manager.GetPathWithError (config.go:49-58)
GetPathWithError(env, global) ==
  IF global
  THEN IF ~env.homeOK THEN [path |-> LocalPath, err |-> "homedir"]
       ELSE [path |-> GlobalPath, err |-> "none"]
  ELSE [path |-> LocalPath, err |-> "none"]

\* LoadFromPath that reads without asking fileExists first
LoadFromPath_NoExistenceCheck(env, configPath) ==
  LET rd == ReadFile(env, configPath)
  IN IF ~rd.ok THEN [config |-> Nil, err |-> "read"]
     ELSE LET um == Unmarshal(rd.data)
          IN IF ~um.ok THEN [config |-> Nil, err |-> "parse"]
             ELSE [config |-> Ptr(um.config), err |-> "none"]

\* Manager.LoadFromPath (config.go:93-109)
LoadFromPath(env, configPath) ==
  IF ~fileExists(env, configPath) THEN [config |-> Nil, err |-> "notfound"]
  ELSE LET rd == ReadFile(env, configPath)
       IN IF ~rd.ok THEN [config |-> Nil, err |-> "read"]
          ELSE LET um == Unmarshal(rd.data)
               IN IF ~um.ok THEN [config |-> Nil, err |-> "parse"]
                  ELSE [config |-> Ptr(um.config), err |-> "none"]

\* the end of Load that tries the other location when the chosen file does
\* not load
LoadChosen_FallsBackOnError(env, chosen) ==
  IF chosen = "" THEN [config |-> Nil, path |-> "", err |-> "notfound"]
  ELSE LET ld == LoadFromPath(env, chosen)
           other == IF chosen = GetPath(env, FALSE) THEN GetPath(env, TRUE)
                    ELSE GetPath(env, FALSE)
           second == LoadFromPath(env, other)
       IN IF ld.err = "none" THEN [config |-> ld.config, path |-> chosen, err |-> "none"]
          ELSE IF second.err = "none"
          THEN [config |-> second.config, path |-> other, err |-> "none"]
          ELSE [config |-> Nil, path |-> chosen, err |-> ld.err]

\* the end of Load (config.go:83-89): the chosen file is loaded
LoadChosen(env, chosen) ==
  IF chosen = "" THEN [config |-> Nil, path |-> "", err |-> "notfound"]
  ELSE LET ld == LoadFromPath(env, chosen)
       IN IF ld.err # "none" THEN [config |-> Nil, path |-> chosen, err |-> ld.err]
          ELSE [config |-> ld.config, path |-> chosen, err |-> "none"]

\* Load that looks at the global file first whatever preferGlobal is
Load_GlobalFirst(env, preferGlobal) ==
  LET localPath == GetPath(env, FALSE)
      globalPath == GetPath(env, TRUE)
  IN LoadChosen(env, IF fileExists(env, globalPath) THEN globalPath
                     ELSE IF fileExists(env, localPath) THEN localPath
                     ELSE "")

\* Load that looks at the local file first whatever preferGlobal is
Load_LocalFirst(env, preferGlobal) ==
  LET localPath == GetPath(env, FALSE)
      globalPath == GetPath(env, TRUE)
  IN LoadChosen(env, IF fileExists(env, localPath) THEN localPath
                     ELSE IF fileExists(env, globalPath) THEN globalPath
                     ELSE "")

\* Load without the fallback to the global file
Load_NoFallback(env, preferGlobal) ==
  LET localPath == GetPath(env, FALSE)
      globalPath == GetPath(env, TRUE)
  IN LoadChosen(env, IF preferGlobal /\ fileExists(env, globalPath) THEN globalPath
                     ELSE IF fileExists(env, localPath) THEN localPath
                     ELSE "")

\* Manager.Load (config.go:61-90)
Load(env, preferGlobal) ==
  LET localPath == GetPath(env, FALSE)
      globalPath == GetPath(env, TRUE)
      localExists == fileExists(env, localPath)
      globalExists == fileExists(env, globalPath)
      chosen == IF preferGlobal /\ globalExists THEN globalPath
                ELSE IF localExists THEN localPath
                ELSE IF globalExists THEN globalPath
                ELSE ""
  IN LoadChosen(env, chosen)

\* SaveToPath that keeps the members of the old file it has no field for
SaveToPath_KeepsOtherMembers(env, config, configPath) ==
  LET old == IF Stat(env, configPath) = "file" /\ env.fs[configPath].text.wf
             THEN env.fs[configPath].text.members ELSE <<>>
      data == Object(MarshalIndent(config).members
                       \o SelectSeq(old, LAMBDA m : FieldOf(m.key) = ""))
      wr == WriteFile(env, configPath, data)
  IN IF ~wr.ok THEN [env |-> env, err |-> "write"] ELSE [env |-> wr.env, err |-> "none"]

\* Manager.SaveToPath (config.go:132-143)
SaveToPath(env, config, configPath) ==
  LET data == MarshalIndent(config)
      wr == WriteFile(env, configPath, data)
  IN IF ~wr.ok THEN [env |-> env, err |-> "write"]
     ELSE [env |-> wr.env, err |-> "none"]

\* Save that never creates the parent directory
Save_NoMkdir(env, config, global) ==
  LET configPath == GetPath(env, global)
      sv == SaveToPath(env, config, configPath)
  IN [env |-> sv.env, path |-> configPath, err |-> sv.err]

\* Manager.Save (config.go:112-129)
Save(env, config, global) ==
  LET configPath == GetPath(env, global)
      mk == IF global THEN MkdirAll(env, Dir(configPath)) ELSE [ok |-> TRUE, env |-> env]
  IN IF ~mk.ok THEN [env |-> env, path |-> configPath, err |-> "mkdir"]
     ELSE LET sv == SaveToPath(mk.env, config, configPath)
          IN [env |-> sv.env, path |-> configPath, err |-> sv.err]

\* a template that presets DefaultUsername
templateContent_DefaultUsername ==
  Object(<<Member(KEY_WEBHOOK, <<>>), Member(KEY_USERNAME, <<Lit(PLAIN)>>), Member(KEY_AVATAR, <<>>)>>)

\* templateContent (config.go:164-168)
templateContent ==
  Object(<<Member(KEY_WEBHOOK, <<>>), Member(KEY_USERNAME, <<>>), Member(KEY_AVATAR, <<>>)>>)

\* CreateTemplate without the existence check: it always writes
CreateTemplate_Overwrite(env, global) ==
  LET configPath == GetPath(env, global)
      mk == IF global THEN MkdirAll(env, Dir(configPath)) ELSE [ok |-> TRUE, env |-> env]
  IN IF ~mk.ok THEN [env |-> env, path |-> configPath, created |-> FALSE, err |-> "mkdir"]
     ELSE LET wr == WriteFile(mk.env, configPath, templateContent)
          IN IF ~wr.ok
             THEN [env |-> mk.env, path |-> configPath, created |-> FALSE, err |-> "write"]
             ELSE [env |-> wr.env, path |-> configPath, created |-> TRUE, err |-> "none"]

\* CreateTemplate that keeps an existing file only if it loads
CreateTemplate_RepairsMalformed(env, global) ==
  LET configPath == GetPath(env, global)
      mk == IF global THEN MkdirAll(env, Dir(configPath)) ELSE [ok |-> TRUE, env |-> env]
  IN IF ~mk.ok THEN [env |-> env, path |-> configPath, created |-> FALSE, err |-> "mkdir"]
     ELSE IF LoadFromPath(mk.env, configPath).err \notin {"notfound", "parse"}
          THEN [env |-> mk.env, path |-> configPath, created |-> FALSE, err |-> "none"]
          ELSE LET wr == WriteFile(mk.env, configPath, templateContent)
               IN IF ~wr.ok
                  THEN [env |-> mk.env, path |-> configPath, created |-> FALSE, err |-> "write"]
                  ELSE [env |-> wr.env, path |-> configPath, created |-> TRUE, err |-> "none"]

\* CreateTemplate that goes on after a failed MkdirAll
CreateTemplate_IgnoresMkdirError(env, global) ==
  LET configPath == GetPath(env, global)
      mk == IF global THEN MkdirAll(env, Dir(configPath)) ELSE [ok |-> TRUE, env |-> env]
  IN IF fileExists(mk.env, configPath)
     THEN [env |-> mk.env, path |-> configPath, created |-> FALSE, err |-> "none"]
     ELSE LET wr == WriteFile(mk.env, configPath, templateContent)
          IN IF ~wr.ok
             THEN [env |-> mk.env, path |-> configPath, created |-> FALSE, err |-> "write"]
             ELSE [env |-> wr.env, path |-> configPath, created |-> TRUE, err |-> "none"]

\* Manager.CreateTemplate (config.go:147-176)
CreateTemplate(env, global) ==
  LET configPath == GetPath(env, global)
      mk == IF global THEN MkdirAll(env, Dir(configPath)) ELSE [ok |-> TRUE, env |-> env]
  IN IF ~mk.ok THEN [env |-> env, path |-> configPath, created |-> FALSE, err |-> "mkdir"]
     ELSE IF fileExists(mk.env, configPath)
          THEN [env |-> mk.env, path |-> configPath, created |-> FALSE, err |-> "none"]
          ELSE LET wr == WriteFile(mk.env, configPath, templateContent)
               IN IF ~wr.ok
                  THEN [env |-> mk.env, path |-> configPath, created |-> FALSE, err |-> "write"]
                  ELSE [env |-> wr.env, path |-> configPath, created |-> TRUE, err |-> "none"]

\* The summary DisplayConfig returns is a sequence of pieces: the fixed
\* fragments of its format strings, the path, and the characters of the
\* field values.
HEADER == "Current configuration"
LABEL_WEBHOOK == "Webhook URL: "
LABEL_USERNAME == "Username: "
LABEL_AVATAR == "Avatar URL: "
ELLIPSIS == "..."
NOT_SET == "(not set)"
NL == "\n"

\* number of trailing bytes of the webhook URL that are shown (config.go:192)
MaskKeep == 10

\* the webhook URL shown in full
MaskURL_Identity(url) == url

\* the security masking of the webhook URL (config.go:191-194); the URLs
\* handed to it are made of one-byte characters, so Len is Go's len
MaskURL(url) ==
  IF Len(url) > MaskKeep
  THEN <<ELLIPSIS>> \o SubSeq(url, Len(url) - MaskKeep + 1, Len(url))
  ELSE url

FormatField(label, shown) ==
  <<label>> \o (IF shown # <<>> THEN shown ELSE <<NOT_SET>>) \o <<NL>>

\* DisplayConfig (config.go:180-215)
DisplayConfig(env, path) ==
  LET ld == LoadFromPath(env, path)
  IN IF ld.err # "none" THEN [output |-> <<>>, err |-> ld.err]
     ELSE LET config == ld.config[1]
          IN [output |-> <<NL, HEADER, path, NL>>
                           \o FormatField(LABEL_WEBHOOK, MaskURL(config.WebhookURL))
                           \o FormatField(LABEL_USERNAME, config.Username)
                           \o FormatField(LABEL_AVATAR, config.AvatarURL),
              err |-> "none"]

(***************************************************************************)
(* Command line (cli.go).  An argument is a word, a flag, or a flag with a *)
(* value: name is its text up to and including "=", value what follows.    *)
(***************************************************************************)
Arg(name, value) == [name |-> name, value |-> value]
Word(name) == Arg(name, <<>>)

Words == {"init", "config", "msg"}
HelpFlags == {"--help", "-h"}
VersionFlags == {"--version", "-v"}
GlobalFlags == {"-g", "--global"}
ValueFlags == {"--webhook=", "--username=", "--avatar=", "--source="}

\* the values written after "=": bare, and in double quotes
FlagValues == {<<PLAIN>>, <<QUOTE, PLAIN, QUOTE>>}

\* the arguments: every word and flag Parse knows, and a flag it does not
ArgSet ==
  {Word(n) : n \in Words \cup HelpFlags \cup VersionFlags \cup GlobalFlags \cup {"-x"}}
    \cup {Arg(n, v) : n \in ValueFlags, v \in FlagValues}

RECURSIVE ArgLists(_)
ArgLists(n) ==
  IF n <= 0 THEN {<<>>}
  ELSE ArgLists(n - 1) \cup {Append(l, a) : l \in ArgLists(n - 1), a \in ArgSet}

\* strings.Trim(s, "'\""): the quotes at both ends removed
RECURSIVE Trim(_)
Trim(s) ==
  IF s = <<>> THEN s
  ELSE IF Head(s) = QUOTE THEN Trim(Tail(s))
  ELSE IF s[Len(s)] = QUOTE THEN Trim(SubSeq(s, 1, Len(s) - 1))
  ELSE s

\* cli.Args (cli.go:22-30), zero but for the command
CliArgs(command) ==
  [Command |-> command, Message |-> <<>>, WebhookURL |-> <<>>, Source |-> <<>>,
   Username |-> <<>>, AvatarURL |-> <<>>, Global |-> FALSE]

UNKNOWN_SOURCE == "Unknown"

\* the loop of parseNotifyArgs (cli.go:92-110): result so far, whether a
\* message was found, and the error that stopped it
RECURSIVE NotifyLoop(_, _, _)
NotifyLoop(args, result, messageFound) ==
  IF args = <<>> THEN [result |-> result, messageFound |-> messageFound, err |-> "none"]
  ELSE LET arg == Head(args)
       IN IF arg.name = "--source="
          THEN NotifyLoop(Tail(args), [result EXCEPT !.Source = Trim(arg.value)], messageFound)
          ELSE IF arg.name = "--webhook="
          THEN NotifyLoop(Tail(args), [result EXCEPT !.WebhookURL = Trim(arg.value)], messageFound)
          ELSE IF arg.name \in GlobalFlags
          THEN NotifyLoop(Tail(args), [result EXCEPT !.Global = TRUE], messageFound)
          ELSE IF arg.name \notin Words
          THEN [result |-> result, messageFound |-> messageFound, err |-> "unknownoption"]
          ELSE NotifyLoop(Tail(args),
                          [result EXCEPT !.Message = Append(result.Message, arg.name)],
                          TRUE)

\* parseNotifyArgs (cli.go:78-120); the message is kept as the list of the
\* words that strings.Join puts together
parseNotifyArgs(args) ==
  IF Len(args) < 1 THEN [parsed |-> Nil, err |-> "nomessage"]
  ELSE LET l == NotifyLoop(args, [CliArgs("Notify") EXCEPT !.Source = <<UNKNOWN_SOURCE>>], FALSE)
       IN IF l.err # "none" THEN [parsed |-> Nil, err |-> l.err]
          ELSE IF ~l.messageFound THEN [parsed |-> Nil, err |-> "nomessage"]
          ELSE [parsed |-> Ptr(l.result), err |-> "none"]

\* the loop of parseConfigArgs (cli.go:134-149)
RECURSIVE ConfigLoop(_, _)
ConfigLoop(args, result) ==
  IF args = <<>> THEN [result |-> result, err |-> "none"]
  ELSE LET arg == Head(args)
       IN IF arg.name \in GlobalFlags
          THEN ConfigLoop(Tail(args), [result EXCEPT !.Global = TRUE])
          ELSE IF arg.name = "--webhook="
          THEN ConfigLoop(Tail(args), [result EXCEPT !.WebhookURL = Trim(arg.value)])
          ELSE IF arg.name = "--username="
          THEN ConfigLoop(Tail(args), [result EXCEPT !.Username = Trim(arg.value)])
          ELSE IF arg.name = "--avatar="
          THEN ConfigLoop(Tail(args), [result EXCEPT !.AvatarURL = Trim(arg.value)])
          ELSE [result |-> result, err |-> "unknownparam"]

\* parseConfigArgs (cli.go:123-152)
parseConfigArgs(args) ==
  LET l == ConfigLoop(args, CliArgs("Config"))
  IN IF l.err # "none" THEN [parsed |-> Nil, err |-> l.err]
     ELSE [parsed |-> Ptr(l.result), err |-> "none"]

\* the positions of the help and version flags
HelpOrVersionAt(args) ==
  {i \in 1..Len(args) : args[i].name \in HelpFlags \cup VersionFlags}

Min(S) == CHOOSE i \in S : \A j \in S : i <= j

\* Parse that looks for -g or --global anywhere after init
Parse_GlobalAnywhere(args) ==
  IF Len(args) < 1 THEN [parsed |-> Nil, err |-> "noarguments"]
  ELSE IF HelpOrVersionAt(args) # {}
  THEN LET first == args[Min(HelpOrVersionAt(args))]
       IN [parsed |-> Ptr(CliArgs(IF first.name \in HelpFlags THEN "ShowHelp"
                                                               ELSE "ShowVersion")),
           err |-> "none"]
  ELSE IF args[1].name = "init"
  THEN [parsed |-> Ptr([CliArgs("Init") EXCEPT
                          !.Global = \E i \in 2..Len(args) : args[i].name \in GlobalFlags]),
        err |-> "none"]
  ELSE IF args[1].name = "config" THEN parseConfigArgs(Tail(args))
  ELSE parseNotifyArgs(args)

\* Parse that looks at the first argument only for the help and version
\* flags
Parse_HelpFirstOnly(args) ==
  IF Len(args) < 1 THEN [parsed |-> Nil, err |-> "noarguments"]
  ELSE IF args[1].name \in HelpFlags \cup VersionFlags
  THEN [parsed |-> Ptr(CliArgs(IF args[1].name \in HelpFlags THEN "ShowHelp"
                                                               ELSE "ShowVersion")),
        err |-> "none"]
  ELSE IF args[1].name = "init"
  THEN [parsed |-> Ptr([CliArgs("Init") EXCEPT
                          !.Global = Len(args) > 1 /\ args[2].name \in GlobalFlags]),
        err |-> "none"]
  ELSE IF args[1].name = "config" THEN parseConfigArgs(Tail(args))
  ELSE parseNotifyArgs(args)

\* Parse (cli.go:33-75)
Parse(args) ==
  IF Len(args) < 1 THEN [parsed |-> Nil, err |-> "noarguments"]
  ELSE IF HelpOrVersionAt(args) # {}
  THEN LET first == args[Min(HelpOrVersionAt(args))]
       IN [parsed |-> Ptr(CliArgs(IF first.name \in HelpFlags THEN "ShowHelp"
                                                               ELSE "ShowVersion")),
           err |-> "none"]
  ELSE IF args[1].name = "init"
  THEN [parsed |-> Ptr([CliArgs("Init") EXCEPT
                          !.Global = Len(args) > 1 /\ args[2].name \in GlobalFlags]),
        err |-> "none"]
  ELSE IF args[1].name = "config" THEN parseConfigArgs(Tail(args))
  ELSE parseNotifyArgs(args)

(***************************************************************************)
(* Command handlers (main.go).  args is the part of cli.Args the handlers  *)
(* branch on; Message and Source only travel in the request body.          *)
(***************************************************************************)
Args(global, webhookURL, username, avatarURL) ==
  [Global |-> global, WebhookURL |-> webhookURL, Username |-> username,
   AvatarURL |-> avatarURL]

NO_CONFIG_FOUND == "No configuration found at"
TEMPLATE_CREATED == "Configuration template created:"
ALREADY_EXISTS == "Config file already exists:"
CONFIG_UPDATED == "Configuration updated in"

\* handleInit (main.go:524-550); output is what it prints; the call of
\* CreateTemplate is counted with the saves
handleInit(env, global) ==
  LET ct == CreateTemplate(env, global)
  IN IF ct.err # "none"
     THEN [env |-> ct.env, path |-> ct.path, output |-> <<>>, err |-> ct.err,
           loads |-> 0, saves |-> 1]
     ELSE IF ct.created
     THEN [env |-> ct.env, path |-> ct.path,
           output |-> <<TEMPLATE_CREATED, ct.path, NL>>, err |-> "none",
           loads |-> 0, saves |-> 1]
     ELSE LET d == DisplayConfig(ct.env, ct.path)
          IN [env |-> ct.env, path |-> ct.path,
              output |-> IF d.err = "none"
                         THEN <<ALREADY_EXISTS, ct.path, NL>> \o d.output
                         ELSE <<ALREADY_EXISTS, ct.path, NL>>,
              err |-> d.err, loads |-> 1, saves |-> 1]

\* the fields of cfg that args names replaced by args' values
\* (main.go:593-602)
UpdateConfig(cfg, args) ==
  Config(IF args.WebhookURL # <<>> THEN args.WebhookURL ELSE cfg.WebhookURL,
         IF args.Username # <<>> THEN args.Username ELSE cfg.Username,
         IF args.AvatarURL # <<>> THEN args.AvatarURL ELSE cfg.AvatarURL)

\* handleConfig that prints the summary of the file even when the save failed
handleConfig_SummaryAfterFailedSave(env, args) ==
  LET configPath == GetPath(env, args.Global)
  IN IF args.WebhookURL = <<>> /\ args.Username = <<>> /\ args.AvatarURL = <<>>
     THEN IF Stat(env, configPath) = "absent"
          THEN [env |-> env, path |-> configPath,
                output |-> <<NO_CONFIG_FOUND, configPath, NL>>, err |-> "none",
                loads |-> 0, saves |-> 0]
          ELSE LET d == DisplayConfig(env, configPath)
               IN [env |-> env, path |-> configPath, output |-> d.output, err |-> d.err,
                   loads |-> 1, saves |-> 0]
     ELSE LET ld == LoadFromPath(env, configPath)
              mk == IF ld.err # "none" /\ args.Global
                    THEN MkdirAll(env, Dir(configPath))
                    ELSE [ok |-> TRUE, env |-> env]
          IN IF ~mk.ok
             THEN [env |-> env, path |-> configPath, output |-> <<>>, err |-> "mkdir",
                   loads |-> 1, saves |-> 0]
             ELSE LET cfg == UpdateConfig(IF ld.err = "none" THEN ld.config[1] ELSE EmptyConfig,
                                          args)
                      sv == Save(mk.env, cfg, args.Global)
                  IN IF sv.err # "none"
                     THEN [env |-> sv.env, path |-> sv.path,
                           output |-> DisplayConfig(sv.env, sv.path).output, err |-> sv.err,
                           loads |-> 2, saves |-> 1]
                     ELSE LET d == DisplayConfig(sv.env, sv.path)
                          IN [env |-> sv.env, path |-> sv.path,
                              output |-> IF d.err = "none"
                                         THEN <<CONFIG_UPDATED, sv.path, NL>> \o d.output
                                         ELSE <<CONFIG_UPDATED, sv.path, NL>>,
                              err |-> d.err, loads |-> 2, saves |-> 1]

\* handleConfig (main.go:553-620); output is what it prints; loads counts
\* the calls of LoadFromPath (DisplayConfig makes one), saves those of Save
handleConfig(env, args) ==
  LET configPath == GetPath(env, args.Global)
  IN IF args.WebhookURL = <<>> /\ args.Username = <<>> /\ args.AvatarURL = <<>>
     THEN IF Stat(env, configPath) = "absent"
          THEN [env |-> env, path |-> configPath,
                output |-> <<NO_CONFIG_FOUND, configPath, NL>>, err |-> "none",
                loads |-> 0, saves |-> 0]
          ELSE LET d == DisplayConfig(env, configPath)
               IN [env |-> env, path |-> configPath, output |-> d.output, err |-> d.err,
                   loads |-> 1, saves |-> 0]
     ELSE LET ld == LoadFromPath(env, configPath)
              mk == IF ld.err # "none" /\ args.Global
                    THEN MkdirAll(env, Dir(configPath))
                    ELSE [ok |-> TRUE, env |-> env]
          IN IF ~mk.ok
             THEN [env |-> env, path |-> configPath, output |-> <<>>, err |-> "mkdir",
                   loads |-> 1, saves |-> 0]
             ELSE LET cfg == UpdateConfig(IF ld.err = "none" THEN ld.config[1] ELSE EmptyConfig,
                                          args)
                      sv == Save(mk.env, cfg, args.Global)
                  IN IF sv.err # "none"
                     THEN [env |-> sv.env, path |-> sv.path, output |-> <<>>, err |-> sv.err,
                           loads |-> 1, saves |-> 1]
                     ELSE LET d == DisplayConfig(sv.env, sv.path)
                          IN [env |-> sv.env, path |-> sv.path,
                              output |-> IF d.err = "none"
                                         THEN <<CONFIG_UPDATED, sv.path, NL>> \o d.output
                                         ELSE <<CONFIG_UPDATED, sv.path, NL>>,
                              err |-> d.err, loads |-> 2, saves |-> 1]

\* discord.SendNotification (discord.go:46-116): the payload is posted to
\* webhookURL; response is what comes back: status 204, another status, or
\* no response at all
SendNotification(webhookURL, response) ==
  IF response = "error" THEN "send"
  ELSE IF response = "204" THEN "none"
  ELSE "status"

\* handleNotify without the test for an empty webhook URL
handleNotify_NoEmptyCheck(env, args, response) ==
  LET preferGlobal == args.Global
      ld == Load(env, preferGlobal)
      fromConfig == IF /\ ld.err = "none"
                       /\ ld.config[1].WebhookURL # <<>>
                       /\ args.WebhookURL = <<>>
                    THEN ld.config[1].WebhookURL
                    ELSE <<>>
      tryFallback == fromConfig = <<>> /\ ~preferGlobal /\ ld.err # "none"
      fb == Load(env, TRUE)
      useFallback == tryFallback /\ fb.err = "none" /\ fb.config[1].WebhookURL # <<>>
      configToUse == IF useFallback THEN fb.config
                     ELSE IF ld.err = "none" THEN ld.config
                     ELSE Nil
      webhookURL == IF args.WebhookURL # <<>> THEN args.WebhookURL
                    ELSE IF useFallback THEN fb.config[1].WebhookURL
                    ELSE fromConfig
      loads == IF tryFallback THEN 2 ELSE 1
  IN IF FALSE
     THEN [sent |-> Nil, config |-> Nil, err |-> "nowebhook", loads |-> loads]
     ELSE [sent |-> Ptr(webhookURL), config |-> configToUse,
           err |-> SendNotification(webhookURL, response), loads |-> loads]

\* handleNotify that lets the config file's webhook URL win over the argument
handleNotify_ConfigFirst(env, args, response) ==
  LET preferGlobal == args.Global
      ld == Load(env, preferGlobal)
      fromConfig == IF /\ ld.err = "none"
                       /\ ld.config[1].WebhookURL # <<>>
                       /\ args.WebhookURL = <<>>
                    THEN ld.config[1].WebhookURL
                    ELSE <<>>
      tryFallback == fromConfig = <<>> /\ ~preferGlobal /\ ld.err # "none"
      fb == Load(env, TRUE)
      useFallback == tryFallback /\ fb.err = "none" /\ fb.config[1].WebhookURL # <<>>
      configToUse == IF useFallback THEN fb.config
                     ELSE IF ld.err = "none" THEN ld.config
                     ELSE Nil
      webhookURL == IF ld.err = "none" /\ ld.config[1].WebhookURL # <<>>
                    THEN ld.config[1].WebhookURL
                    ELSE IF args.WebhookURL # <<>> THEN args.WebhookURL
                    ELSE IF useFallback THEN fb.config[1].WebhookURL
                    ELSE fromConfig
      loads == IF tryFallback THEN 2 ELSE 1
  IN IF webhookURL = <<>>
     THEN [sent |-> Nil, config |-> Nil, err |-> "nowebhook", loads |-> loads]
     ELSE [sent |-> Ptr(webhookURL), config |-> configToUse,
           err |-> SendNotification(webhookURL, response), loads |-> loads]

\* handleNotify (main.go:623-678); sent is the URL the notification was
\* posted to, config the Config whose username and avatar went with it
handleNotify(env, args, response) ==
  LET preferGlobal == args.Global
      ld == Load(env, preferGlobal)
      fromConfig == IF /\ ld.err = "none"
                       /\ ld.config[1].WebhookURL # <<>>
                       /\ args.WebhookURL = <<>>
                    THEN ld.config[1].WebhookURL
                    ELSE <<>>
      tryFallback == fromConfig = <<>> /\ ~preferGlobal /\ ld.err # "none"
      fb == Load(env, TRUE)
      useFallback == tryFallback /\ fb.err = "none" /\ fb.config[1].WebhookURL # <<>>
      configToUse == IF useFallback THEN fb.config
                     ELSE IF ld.err = "none" THEN ld.config
                     ELSE Nil
      webhookURL == IF args.WebhookURL # <<>> THEN args.WebhookURL
                    ELSE IF useFallback THEN fb.config[1].WebhookURL
                    ELSE fromConfig
      loads == IF tryFallback THEN 2 ELSE 1
  IN IF webhookURL = <<>>
     THEN [sent |-> Nil, config |-> Nil, err |-> "nowebhook", loads |-> loads]
     ELSE [sent |-> Ptr(webhookURL), config |-> configToUse,
           err |-> SendNotification(webhookURL, response), loads |-> loads]

(***************************************************************************)
(* State machine.  res is the last call and what it returned, prev the     *)
(* call before it; a change made to the file system from outside the       *)
(* manager is recorded as a call too.                                      *)
(***************************************************************************)
\* sent is the webhook URL a request was posted to, response what came
\* back, output the summary a call returned or printed, and loads and saves
\* the numbers of calls of Load or LoadFromPath and of Save a command
\* handler made; argv and parsed are the argument and the result of Parse
Result(op, global, argPath, argConfig, path, config, created, err) ==
  [op |-> op, global |-> global, argPath |-> argPath, argConfig |-> argConfig,
   path |-> path, config |-> config, created |-> created, err |-> err,
   sent |-> Nil, response |-> "", output |-> Nil, loads |-> 0, saves |-> 0,
   argv |-> <<>>, parsed |-> Nil]

NoCall == Result("none", FALSE, "", Nil, "", Nil, FALSE, "none")
Outside == Result("outside", FALSE, "", Nil, "", Nil, FALSE, "none")

Install(env) ==
  /\ fs' = env.fs
  /\ gdir' = env.gdir
  /\ homeOK' = env.homeOK

\* NewManager (config.go:29-33); the files are whatever the user has
Init ==
  /\ fs = [p \in Paths |-> Absent]
  /\ gdir \in {"missing", "present", "blocked"}
  /\ homeOK \in BOOLEAN
  /\ prev = NoCall
  /\ res = NoCall

\* Load of a Manager that remembers the file of its last operation and
\* reads that one again while it exists
CallLoad_Sticky ==
  \E preferGlobal \in BOOLEAN :
    LET r == IF res.path \in Paths /\ fileExists(Env, res.path)
             THEN LoadChosen(Env, res.path)
             ELSE Load(Env, preferGlobal)
    IN /\ res' = Result("Load", preferGlobal, "", Nil, r.path, r.config, FALSE, r.err)
       /\ prev' = res
       /\ UNCHANGED <<fs, gdir, homeOK>>

\* Manager.Load called with either preference; the Manager has no fields
\* (config.go:24-33), so the call sees only the files
CallLoad ==
  \E preferGlobal \in BOOLEAN :
    LET r == Load(Env, preferGlobal)
    IN /\ res' = Result("Load", preferGlobal, "", Nil, r.path, r.config, FALSE, r.err)
       /\ prev' = res
       /\ UNCHANGED <<fs, gdir, homeOK>>

LoadFromPathStep(configPath) ==
  LET r == LoadFromPath(Env, configPath)
  IN /\ res' = Result("LoadFromPath", FALSE, configPath, Nil, configPath, r.config, FALSE, r.err)
     /\ prev' = res
     /\ UNCHANGED <<fs, gdir, homeOK>>

SaveStep(config, global) ==
  LET r == Save(Env, config, global)
  IN /\ res' = Result("Save", global, "", Ptr(config), r.path, Nil, FALSE, r.err)
     /\ prev' = res
     /\ Install(r.env)

SaveToPathStep(config, configPath) ==
  LET r == SaveToPath(Env, config, configPath)
  IN /\ res' = Result("SaveToPath", FALSE, configPath, Ptr(config), configPath, Nil, FALSE, r.err)
     /\ prev' = res
     /\ Install(r.env)

CallGetPathWithError ==
  \E global \in BOOLEAN :
    LET r == GetPathWithError(Env, global)
    IN /\ res' = Result("GetPathWithError", global, "", Nil, r.path, Nil, FALSE, r.err)
       /\ prev' = res
       /\ UNCHANGED <<fs, gdir, homeOK>>

CallLoadFromPath == \E configPath \in Paths : LoadFromPathStep(configPath)

CallSave == \E config \in Configs, global \in BOOLEAN : SaveStep(config, global)

CallSaveToPath == \E config \in Configs, configPath \in Paths : SaveToPathStep(config, configPath)

CallCreateTemplate ==
  \E global \in BOOLEAN :
    LET r == CreateTemplate(Env, global)
    IN /\ res' = Result("CreateTemplate", global, "", Nil, r.path, Nil, r.created, r.err)
       /\ prev' = res
       /\ Install(r.env)

\* the user or a test removes, replaces or protects a config file
\* (os.Remove, os.WriteFile, os.Mkdir, chmod)
OutsideSetNode ==
  \E p \in Paths, n \in {Absent, Directory, Denied, File(Garbage)} :
    /\ p = GlobalPath => gdir = "present"
    /\ fs[p] # n
    /\ fs' = [fs EXCEPT ![p] = n]
    /\ prev' = res
    /\ res' = Outside
    /\ UNCHANGED <<gdir, homeOK>>

\* the global directory is created, removed or made impossible to create
OutsideSetDir ==
  \E d \in {"missing", "present", "blocked"} :
    /\ fs[GlobalPath] = Absent
    /\ gdir # d
    /\ gdir' = d
    /\ prev' = res
    /\ res' = Outside
    /\ UNCHANGED <<fs, homeOK>>

\* $HOME is set or unset (os.Setenv("HOME", ...))
OutsideSetHome ==
  /\ homeOK' = ~homeOK
  /\ prev' = res
  /\ res' = Outside
  /\ UNCHANGED <<fs, gdir>>

Next ==
  \/ CallGetPathWithError
  \/ CallLoad
  \/ CallLoadFromPath
  \/ CallSave
  \/ CallSaveToPath
  \/ CallCreateTemplate
  \/ OutsideSetNode
  \/ OutsideSetDir
  \/ OutsideSetHome

Spec == Init /\ [][Next]_vars

TypeOK ==
  /\ \A p \in Paths : fs[p].kind \in {"absent", "dir", "denied", "file"}
  /\ gdir \in {"missing", "present", "blocked"}
  /\ homeOK \in BOOLEAN
  /\ gdir # "present" => fs[GlobalPath] = Absent

(***************************************************************************)
(* Properties of Load                                                      *)
(***************************************************************************)
\* the regular file at p holds text that parses, and what it parses to
Readable(p) == Stat(Env, p) = "file" /\ Unmarshal(fs[p].text).ok
SettingsAt(p) == Unmarshal(fs[p].text).config

\* the global path can be resolved and a readable config file is there
GlobalReadable == homeOK /\ Readable(GlobalPath)
GlobalAbsent == homeOK /\ Stat(Env, GlobalPath) = "absent"
LocalAbsent == Stat(Env, LocalPath) = "absent"

Loaded(preferGlobal) == res.op = "Load" /\ res.global = preferGlobal

ReturnsFile(p) == res.err = "none" /\ res.path = p /\ res.config = Ptr(SettingsAt(p))

\* C1: Load(true) fails whenever the global config file is absent, even if
\* a valid local config file exists: it returns an error and no Settings
\* and never falls back to the local file.
C1_StrictGlobal ==
  (Loaded(TRUE) /\ GlobalAbsent) => (res.err # "none" /\ res.config = Nil)

\* C2: Load(false) returns the local file's Settings and the local path
\* whenever the local file exists, also when the global file exists with
\* different contents.
C2_LocalPreferred ==
  (Loaded(FALSE) /\ Readable(LocalPath)) => ReturnsFile(LocalPath)

C2_Witness ==
  /\ Loaded(FALSE) /\ Readable(LocalPath) /\ GlobalReadable
  /\ SettingsAt(LocalPath) # SettingsAt(GlobalPath)
  /\ ReturnsFile(LocalPath)

\* C3: Load(false) falls back to the global file when the local file is
\* absent and the global file exists: it returns the global file's Settings
\* and the global path.
C3_FallbackToGlobal ==
  (Loaded(FALSE) /\ LocalAbsent /\ GlobalReadable) => ReturnsFile(GlobalPath)

C3_Witness ==
  /\ Loaded(FALSE) /\ LocalAbsent /\ GlobalReadable
  /\ SettingsAt(GlobalPath) # EmptyConfig
  /\ ReturnsFile(GlobalPath)

\* C4: Load(true) returns the global file's Settings and the global path
\* whenever the global file exists, whether or not a local file exists.
C4_GlobalPreferred ==
  (Loaded(TRUE) /\ GlobalReadable) => ReturnsFile(GlobalPath)

C4_Witness ==
  /\ Loaded(TRUE) /\ GlobalReadable /\ Readable(LocalPath)
  /\ SettingsAt(LocalPath) # SettingsAt(GlobalPath)
  /\ ReturnsFile(GlobalPath)

\* C5: Load fails with a not-found error and returns no Settings when
\* neither the local nor the global config file exists, for both values of
\* preferGlobal.
C5_NeitherExists ==
  (res.op = "Load" /\ LocalAbsent /\ GlobalAbsent)
    => (res.err = "notfound" /\ res.config = Nil)

C5_Witness ==
  /\ LocalAbsent /\ GlobalAbsent
  /\ prev.op = "Load" /\ prev.err = "notfound" /\ prev.config = Nil
  /\ res.op = "Load" /\ res.err = "notfound" /\ res.config = Nil
  /\ prev.global # res.global

\* C6: when preferGlobal is true and the global path cannot be resolved,
\* Load fails with the path-resolution error, which is not the not-found
\* error, whether or not a local file exists, and never returns the local
\* file's Settings.
C6_ResolutionErrorSurfaces ==
  (Loaded(TRUE) /\ GetPathWithError(Env, TRUE).err # "none")
    => /\ res.err = GetPathWithError(Env, TRUE).err
       /\ res.err # "notfound"
       /\ res.config = Nil

(***************************************************************************)
(* Round trip through SaveToPath / Save and LoadFromPath: one save of any  *)
(* Config of at most MaxLen characters, then loads.                        *)
(***************************************************************************)
InitRoundTrip ==
  /\ fs = [p \in Paths |-> Absent]
  /\ gdir \in {"missing", "present"}
  /\ homeOK = TRUE
  /\ prev = NoCall
  /\ res = NoCall

RoundTripSaveToPath ==
  /\ res.op = "none"
  /\ \E config \in ConfigsUpTo(MaxLen), configPath \in Paths : SaveToPathStep(config, configPath)

RoundTripSave ==
  /\ res.op = "none"
  /\ \E config \in ConfigsUpTo(MaxLen), global \in BOOLEAN : SaveStep(config, global)

RoundTripLoad ==
  /\ res.op \in {"Save", "SaveToPath"}
  /\ \E configPath \in Paths : LoadFromPathStep(configPath)

NextRoundTrip ==
  \/ RoundTripSaveToPath
  \/ RoundTripSave
  \/ RoundTripLoad

SpecRoundTrip == InitRoundTrip /\ [][NextRoundTrip]_vars

\* prev is a successful save and res the load of the path it wrote
SavedThenLoaded ==
  /\ prev.op \in {"Save", "SaveToPath"} /\ prev.err = "none"
  /\ res.op = "LoadFromPath" /\ res.argPath = prev.path

ValidUTF8(s) == \A i \in 1..Len(s) : s[i] # BADBYTE

ConfigValidUTF8(c) ==
  ValidUTF8(c.WebhookURL) /\ ValidUTF8(c.Username) /\ ValidUTF8(c.AvatarURL)

\* C7 as stated: for every Settings value, a successful save to a path
\* followed by a load of the same path returns a Settings value equal field
\* by field to the one saved.
C7_RoundTripEveryValue ==
  SavedThenLoaded => (res.err = "none" /\ res.config = prev.argConfig)

\* C7, amended: for every Settings value whose fields are valid UTF-8, a
\* successful save to a path followed by a load of the same path returns a
\* Settings value equal field by field to the one saved.
C7_RoundTripValidUTF8 ==
  (SavedThenLoaded /\ ConfigValidUTF8(prev.argConfig[1]))
    => (res.err = "none" /\ res.config = prev.argConfig)

C7_Witness ==
  /\ SavedThenLoaded
  /\ prev.argConfig = Ptr(Config(<<QUOTE>>, <<PLAIN>>, <<UFFFD>>))
  /\ res.err = "none"
  /\ res.config = prev.argConfig

(***************************************************************************)
(* Properties of CreateTemplate.  They relate the file system before a     *)
(* call to the call's result and the file system after it.                 *)
(***************************************************************************)
\* this step is a call of CreateTemplate
CreateTemplateCalled == res'.op = "CreateTemplate" /\ prev' = res

\* the location CreateTemplate(res'.global) resolves, before the call
Resolved == GetPath(Env, res'.global)

\* the call before this one was a successful CreateTemplate with the same
\* selector that created the file
JustCreatedBySameCall ==
  /\ res.op = "CreateTemplate" /\ res.global = res'.global
  /\ res.err = "none" /\ res.created

\* C8: CreateTemplate is idempotent: starting with no file at the resolved
\* location, two consecutive calls with the same selector return
\* created=true then created=false, both return the same path, and the file
\* content after the second call equals the content after the first, for
\* the local and for the global selector.
C8_CreateTemplateIdempotent ==
  [][CreateTemplateCalled =>
       /\ (Stat(Env, Resolved) = "absent" /\ res'.err = "none")
            => (res'.created /\ res'.path = Resolved)
       /\ JustCreatedBySameCall
            => (~res'.created /\ res'.err = "none" /\ res'.path = res.path /\ fs' = fs)
    ]_vars

C8_Witness ==
  /\ homeOK
  /\ prev.op = "CreateTemplate" /\ prev.global /\ prev.created /\ prev.path = GlobalPath
  /\ res.op = "CreateTemplate" /\ res.global /\ ~res.created /\ res.path = GlobalPath
  /\ fs[GlobalPath] = File(templateContent)

\* the three calls Save, CreateTemplate, LoadFromPath on one location
SaveCreateLoad ==
  /\ prev.op = "Save" /\ prev.err = "none"
  /\ res.op = "CreateTemplate" /\ res.global = prev.global /\ res.err = "none"
  /\ res'.op = "LoadFromPath" /\ prev' = res /\ res'.argPath = res.path

KeepsExistingFile ==
  (CreateTemplateCalled /\ Stat(Env, Resolved) = "file")
    => (~res'.created /\ res'.err = "none" /\ res'.path = Resolved /\ fs' = fs)

\* C9 as stated: CreateTemplate never modifies an existing file: if a
\* regular file already exists at the resolved path, with any content, it
\* returns created=false and that path, and the file content is unchanged;
\* so a Save followed by CreateTemplate followed by a load still returns the
\* saved Settings.
C9_KeepsFileAndSavedSettings ==
  [][/\ KeepsExistingFile
     /\ SaveCreateLoad => (res'.err = "none" /\ res'.config = prev.argConfig)
    ]_vars

\* C9, amended: as stated, except that the final load returns the saved
\* Settings when its fields are valid UTF-8.
C9_KeepsFileAndValidSettings ==
  [][/\ KeepsExistingFile
     /\ (SaveCreateLoad /\ ConfigValidUTF8(prev.argConfig[1]))
          => (res'.err = "none" /\ res'.config = prev.argConfig)
    ]_vars

C9_Witness ==
  /\ prev.op = "CreateTemplate" /\ ~prev.created /\ prev.err = "none"
  /\ res.op = "LoadFromPath" /\ res.argPath = prev.path
  /\ res.config = Ptr(Config(<<QUOTE>>, <<PLAIN>>, <<>>))

\* C10: when no file exists at the resolved path, CreateTemplate writes a
\* file that loads successfully as a Settings value with all three fields
\* empty, and returns created=true.
C10_TemplateLoadsEmpty ==
  [][(CreateTemplateCalled /\ Stat(Env, Resolved) = "absent" /\ res'.err = "none")
       => /\ res'.created
          /\ Stat(Env', res'.path) = "file"
          /\ LoadFromPath(Env', res'.path) = [config |-> Ptr(EmptyConfig), err |-> "none"]
    ]_vars

C10_Witness ==
  /\ res.op = "CreateTemplate" /\ res.created /\ res.err = "none"
  /\ Stat(Env, res.path) = "file"
  /\ LoadFromPath(Env, res.path) = [config |-> Ptr(EmptyConfig), err |-> "none"]

(***************************************************************************)
(* Properties of LoadFromPath and fileExists                               *)
(***************************************************************************)
LoadedFromPath(k) == res.op = "LoadFromPath" /\ Stat(Env, res.argPath) = k

Unparsable(p) == Stat(Env, p) = "file" /\ ~Unmarshal(fs[p].text).ok

\* C11: LoadFromPath on a path where nothing exists fails with the
\* not-found error, and on a file whose content is not a valid Config
\* document it fails with the parse error; the two errors differ and no
\* Settings are returned with either.
C11_NotFoundOrParseError ==
  /\ LoadedFromPath("absent") => (res.err = "notfound" /\ res.config = Nil)
  /\ (res.op = "LoadFromPath" /\ Unparsable(res.argPath))
       => (res.err = "parse" /\ res.config = Nil)

C11_Witness ==
  /\ prev.op = "LoadFromPath" /\ Stat(Env, prev.argPath) = "absent"
  /\ prev.err = "notfound" /\ prev.config = Nil
  /\ res.op = "LoadFromPath" /\ Unparsable(res.argPath)
  /\ res.err = "parse" /\ res.config = Nil

\* C12: a directory at a config path counts as no file: LoadFromPath on it
\* fails with the not-found error, and Load passes over that location, so
\* Load(false) with a directory at the local path and a valid global file
\* returns the global file.
C12_DirectoryIsNotFound ==
  /\ LoadedFromPath("dir") => (res.err = "notfound" /\ res.config = Nil)
  /\ (Loaded(FALSE) /\ Stat(Env, LocalPath) = "dir" /\ GlobalReadable)
       => ReturnsFile(GlobalPath)
  /\ (Loaded(TRUE) /\ homeOK /\ Stat(Env, GlobalPath) = "dir" /\ Readable(LocalPath))
       => ReturnsFile(LocalPath)
  /\ (res.op = "Load" /\ homeOK /\ Stat(Env, LocalPath) = "dir"
        /\ Stat(Env, GlobalPath) \in {"dir", "absent"})
       => (res.err = "notfound" /\ res.config = Nil)

C12_Witness ==
  /\ prev.op = "LoadFromPath" /\ prev.argPath = LocalPath
  /\ prev.err = "notfound"
  /\ Loaded(FALSE) /\ Stat(Env, LocalPath) = "dir" /\ GlobalReadable
  /\ SettingsAt(GlobalPath) # EmptyConfig
  /\ ReturnsFile(GlobalPath)

SaveCalled == res'.op = "Save" /\ prev' = res

\* C14: when the global path cannot be resolved, Save(cfg, global=true) and
\* CreateTemplate(global=true) report an error and write nothing: the local
\* config file keeps its content or stays absent.
C14_UnresolvedGlobalWritesNothing ==
  [][((SaveCalled \/ CreateTemplateCalled) /\ res'.global
        /\ GetPathWithError(Env, TRUE).err # "none")
       => (res'.err # "none" /\ fs' = fs)
    ]_vars

\* C15: Save to the global location creates the missing parent directory
\* before it writes, so it succeeds when the global directory does not
\* exist yet; Save to the local location never attempts to create a
\* directory.
C15_SaveCreatesGlobalDirOnly ==
  [][SaveCalled =>
       /\ (res'.global /\ homeOK /\ gdir = "missing")
            => /\ res'.err = "none" /\ res'.path = GlobalPath
               /\ gdir' = "present"
               /\ fs'[GlobalPath] = File(MarshalIndent(res'.argConfig[1]))
       /\ ~res'.global => (gdir' = gdir /\ res'.err # "mkdir")
    ]_vars

\* a write to the global path that failed and a Save to the global location
\* right after it that went through: the directory was missing
C15_Witness ==
  /\ prev.op = "SaveToPath" /\ prev.argPath = GlobalPath /\ prev.err = "write"
  /\ res.op = "Save" /\ res.global /\ res.path = GlobalPath /\ res.err = "none"
  /\ gdir = "present"
  /\ fs[GlobalPath] = File(MarshalIndent(res.argConfig[1]))

\* C16: when CreateTemplate cannot create the parent directory of the
\* global file it reports the directory-creation error, which is not the
\* error of a failed template write, with created=false, and writes no
\* template file.
C16_DirectoryCreationError ==
  [][CreateTemplateCalled =>
       /\ (res'.global /\ homeOK /\ gdir = "blocked")
            => (res'.err = "mkdir" /\ ~res'.created /\ fs' = fs /\ gdir' = gdir)
       /\ (~(res'.global /\ homeOK /\ gdir = "blocked") /\ Stat(Env, Resolved) = "dir")
            => (res'.err = "write" /\ ~res'.created /\ fs' = fs)
    ]_vars

C16_Witness ==
  /\ homeOK /\ gdir = "blocked"
  /\ prev.op = "CreateTemplate" /\ ~prev.global /\ prev.err = "write" /\ ~prev.created
  /\ res.op = "CreateTemplate" /\ res.global /\ res.err = "mkdir" /\ ~res.created
  /\ fs[GlobalPath] = Absent

(***************************************************************************)
(* DisplayConfig: one Save of a Config whose webhook URL has up to MaxURL  *)
(* characters, then DisplayConfig of either path.                          *)
(***************************************************************************)
RECURSIVE Repeat(_, _)
Repeat(c, n) == IF n <= 0 THEN <<>> ELSE <<c>> \o Repeat(c, n - 1)

\* webhook URLs of up to n characters whose head and tail differ
URLsUpTo(n) ==
  {Repeat(QUOTE, ij[1]) \o Repeat(PLAIN, ij[2]) :
     ij \in {x \in (0..n) \X (0..n) : x[1] + x[2] <= n}}

InitDisplay ==
  /\ fs = [p \in Paths |-> Absent]
  /\ gdir = "present"
  /\ homeOK = TRUE
  /\ prev = NoCall
  /\ res = NoCall

DisplaySave ==
  /\ res.op = "none"
  /\ \E url \in URLsUpTo(MaxURL), username \in {<<>>, <<PLAIN>>}, global \in BOOLEAN :
       SaveStep(Config(url, username, <<>>), global)

CallDisplayConfig ==
  \E path \in Paths :
    LET r == DisplayConfig(Env, path)
    IN /\ res' = [Result("DisplayConfig", FALSE, path, Nil, path, Nil, FALSE, r.err)
                    EXCEPT !.output = r.output]
       /\ prev' = res
       /\ UNCHANGED <<fs, gdir, homeOK>>

NextDisplay ==
  \/ DisplaySave
  \/ CallDisplayConfig

SpecDisplay == InitDisplay /\ [][NextDisplay]_vars

\* the part of a summary between the webhook label and the end of its line
WebhookShown(output) ==
  LET i == CHOOSE i \in 1..Len(output) : output[i] = LABEL_WEBHOOK
      j == CHOOSE j \in (i + 1)..Len(output) :
             output[j] = NL /\ \A k \in (i + 1)..(j - 1) : output[k] # NL
  IN SubSeq(output, i + 1, j - 1)

IsSuffix(t, s) == Len(t) <= Len(s) /\ SubSeq(s, Len(s) - Len(t) + 1, Len(s)) = t

Contains(s, t) == \E i \in 0..(Len(s) - Len(t)) : SubSeq(s, i + 1, i + Len(t)) = t

Displayed == res.op = "DisplayConfig" /\ res.err = "none"

StoredURL == SettingsAt(res.argPath).WebhookURL

StoredValues == {<<>>, <<Lit(PLAIN)>>, <<Esc(QUOTE)>>}

MemberKinds ==
  {Member(k, v) : k \in Keys, v \in StoredValues} \cup {NumberMember(k) : k \in Keys}

RECURSIVE MemberSeqs(_)
MemberSeqs(n) ==
  IF n <= 0 THEN {<<>>}
  ELSE MemberSeqs(n - 1) \cup
       {Append(x[1], x[2]) :
          x \in {y \in MemberSeqs(n - 1) \X MemberKinds :
                   \A i \in 1..Len(y[1]) : y[1][i].key # y[2].key}}

HandTexts(n) == {Object(ms) : ms \in MemberSeqs(n)} \cup {Garbage}

InitParse ==
  /\ \E text \in HandTexts(MaxMembers) :
       fs = [p \in Paths |-> IF p = LocalPath THEN File(text) ELSE Absent]
  /\ gdir = "present"
  /\ homeOK = TRUE
  /\ prev = NoCall
  /\ res = NoCall

ParseLoad ==
  /\ res.op \in {"none", "SaveToPath", "handleConfig"}
  /\ LoadFromPathStep(LocalPath)

\* the loaded Config is saved back to the path it was loaded from
ParseResave ==
  /\ res.op = "LoadFromPath" /\ res.err = "none" /\ prev.op = "none"
  /\ SaveToPathStep(res.config[1], res.argPath)

\* the step of a handleConfig call that returned r
ConfigReturns(args, r) ==
  /\ res' = [Result("handleConfig", args.Global, "",
                     Ptr(Config(args.WebhookURL, args.Username, args.AvatarURL)),
                     r.path, Nil, FALSE, r.err)
               EXCEPT !.output = r.output, !.loads = r.loads, !.saves = r.saves]
  /\ prev' = res
  /\ Install(r.env)

handleConfigStep(args) == ConfigReturns(args, handleConfig(Env, args))

ParseConfig ==
  /\ res.op = "none"
  /\ \E webhookURL \in {<<>>, <<PLAIN>>}, username \in {<<>>, <<PLAIN>>} :
       handleConfigStep(Args(FALSE, webhookURL, username, <<>>))

NextParse ==
  \/ ParseLoad
  \/ ParseResave
  \/ ParseConfig

SpecParse == InitParse /\ [][NextParse]_vars

\* the string a literal stands for: the character each unit names
Denoted(v) == [i \in 1..Len(v) |-> v[i].c]

TextAt(p) == fs[p].text

\* the positions of the members of text whose key is k, and of those whose
\* key is k when letter case is ignored
Exactly(text, k) == {i \in 1..Len(text.members) : text.members[i].key = k}
Folded(text, k) == {i \in 1..Len(text.members) : FieldOf(text.members[i].key) = k}

Max(S) == CHOOSE i \in S : \A j \in S : j <= i

\* what a field holds after a load according to the members at positions S
StoredAt(text, S) == IF S = {} THEN <<>> ELSE Denoted(text.members[Max(S)].val)

StoredConfig(text, At(_, _)) ==
  Config(StoredAt(text, At(text, KEY_WEBHOOK)),
         StoredAt(text, At(text, KEY_USERNAME)),
         StoredAt(text, At(text, KEY_AVATAR)))

\* a JSON object in which the members at positions S hold strings
WellFormed(text, At(_, _)) ==
  /\ SyntaxOK(text)
  /\ \A k \in {KEY_WEBHOOK, KEY_USERNAME, KEY_AVATAR} :
       \A i \in At(text, k) : text.members[i].str

LoadedLocal == res.op = "LoadFromPath" /\ Stat(Env, res.argPath) = "file"

\* C18 as stated: loading a well-formed file in which some of the three
\* recognized keys are missing or unrecognized extra keys are present
\* succeeds; each missing field is the empty string, each present
\* recognized field has its stored value, and extra keys have no effect.
C18_TolerantParsing ==
  (LoadedLocal /\ WellFormed(TextAt(res.argPath), Exactly))
    => /\ res.err = "none"
       /\ res.config = Ptr(StoredConfig(TextAt(res.argPath), Exactly))

\* C18, amended: the same, where a key is recognized when it equals one of
\* the three key names with letter case ignored: a field that no such key
\* names is the empty string, a field that is named has the value stored
\* under the last key naming it, and the other keys have no effect.
C18_TolerantParsingIgnoringCase ==
  (LoadedLocal /\ WellFormed(TextAt(res.argPath), Folded))
    => /\ res.err = "none"
       /\ res.config = Ptr(StoredConfig(TextAt(res.argPath), Folded))

C18_Witness ==
  /\ LoadedLocal
  /\ TextAt(res.argPath) =
       Object(<<Member(KEY_USERNAME, <<Esc(QUOTE)>>), NumberMember(KEY_EXTRA)>>)
  /\ res.err = "none"
  /\ res.config = Ptr(Config(<<>>, <<QUOTE>>, <<>>))

\* this step saves the Config the last call loaded back to the path it was
\* loaded from
SavedBack ==
  /\ res.op = "LoadFromPath" /\ res.err = "none"
  /\ res'.op = "SaveToPath" /\ prev' = res /\ res'.err = "none"
  /\ res'.argPath = res.argPath /\ res'.argConfig = res.config

\* this step is a handleConfig that updates a file that loads
UpdatedInPlace ==
  /\ res'.op = "handleConfig" /\ prev' = res /\ res'.err = "none"
  /\ res'.argConfig # Ptr(EmptyConfig)
  /\ Readable(res'.path)

KeysOf(text) == [i \in 1..Len(text.members) |-> text.members[i].key]

OnlyRecognizedKeys(text) ==
  /\ text.wf
  /\ KeysOf(text) = <<KEY_WEBHOOK, KEY_USERNAME, KEY_AVATAR>>
  /\ \A i \in 1..Len(text.members) : text.members[i].str

\* the file at p after the step holds config
Holds(p, config) ==
  /\ Stat(Env', p) = "file"
  /\ OnlyRecognizedKeys(fs'[p].text)
  /\ StoredConfig(fs'[p].text, Exactly) = config

\* C19 as stated: after a file with unrecognized keys is loaded and the
\* loaded Settings are saved back to the same location, as the config
\* update command does, the file contains exactly the three recognized
\* keys with the recognized values preserved, and no unrecognized key.
C19_UnknownKeysDropped ==
  [][/\ SavedBack
          => Holds(res.argPath, StoredConfig(TextAt(res.argPath), Exactly))
     /\ UpdatedInPlace
          => Holds(res'.path, UpdateConfig(StoredConfig(TextAt(res'.path), Exactly),
                                           Args(FALSE, res'.argConfig[1].WebhookURL,
                                                res'.argConfig[1].Username,
                                                res'.argConfig[1].AvatarURL)))
    ]_vars

\* C19, amended: the file then contains exactly the three recognized keys
\* and no other key, each with the value the load returned for its field:
\* the value stored under the last key that names the field when letter
\* case is ignored.
C19_UnknownKeysDroppedIgnoringCase ==
  [][/\ SavedBack
          => /\ Holds(res.argPath, StoredConfig(TextAt(res.argPath), Folded))
             /\ Holds(res.argPath, res.config[1])
     /\ UpdatedInPlace
          => Holds(res'.path, UpdateConfig(StoredConfig(TextAt(res'.path), Folded),
                                           Args(FALSE, res'.argConfig[1].WebhookURL,
                                                res'.argConfig[1].Username,
                                                res'.argConfig[1].AvatarURL)))
    ]_vars

C19_Witness ==
  /\ prev.op = "LoadFromPath" /\ prev.err = "none"
  /\ prev.config = Ptr(Config(<<>>, <<QUOTE>>, <<>>))
  /\ res.op = "SaveToPath" /\ res.err = "none" /\ res.argPath = prev.argPath
  /\ TextAt(res.argPath) = MarshalIndent(Config(<<>>, <<QUOTE>>, <<>>))

(***************************************************************************)
(* handleNotify: the config files are whatever the user has, and the       *)
(* command is run with and without -g and a webhook argument.              *)
(***************************************************************************)
NotifyNodes ==
  {Absent, Directory, File(Garbage)} \cup {File(MarshalIndent(c)) : c \in Configs}

\* the webhook URL given on the command line: none, or one that no config
\* file holds
NotifyWebhooks == {<<>>, <<PLAIN, QUOTE>>}

InitNotify ==
  /\ fs \in [Paths -> NotifyNodes]
  /\ gdir \in {"missing", "present"}
  /\ gdir # "present" => fs[GlobalPath] = Absent
  /\ homeOK \in BOOLEAN
  /\ prev = NoCall
  /\ res = NoCall

\* the step of a handleNotify call that returned r
NotifyReturns(global, webhookURL, response, r) ==
  /\ res' = [Result("handleNotify", global, "", Ptr(Config(webhookURL, <<>>, <<>>)),
                     "", r.config, FALSE, r.err)
               EXCEPT !.sent = r.sent, !.loads = r.loads,
                      !.response = IF r.sent = Nil THEN "" ELSE response]
  /\ prev' = res
  /\ UNCHANGED <<fs, gdir, homeOK>>

CallHandleNotify ==
  \E global \in BOOLEAN, webhookURL \in NotifyWebhooks,
     response \in {"204", "400", "error"} :
    NotifyReturns(global, webhookURL, response,
                  handleNotify(Env, Args(global, webhookURL, <<>>, <<>>), response))

NextNotify == CallHandleNotify

SpecNotify == InitNotify /\ [][NextNotify]_vars

Notified(global) == res.op = "handleNotify" /\ res.global = global

NoWebhookArgument == res.argConfig[1].WebhookURL = <<>>

\* C20: handleNotify with the global flag and no webhook on the command
\* line returns an error and sends no HTTP request when the global config
\* file does not exist, even if a local config file with a non-empty
\* webhook URL exists.
C20_GlobalFlagNeedsGlobalFile ==
  (Notified(TRUE) /\ NoWebhookArgument /\ GlobalAbsent)
    => (res.err # "none" /\ res.sent = Nil)

\* no config file exists at either location
NoConfigFile == LocalAbsent /\ (~homeOK \/ Stat(Env, GlobalPath) = "absent")

\* the file the precedence policy selects: with the global flag the global
\* file, without it the local file, or the global file when there is no
\* local file; "" when it selects none or the selected file does not load
SelectedPath(global) ==
  IF global THEN (IF GlobalReadable THEN GlobalPath ELSE "")
  ELSE IF Readable(LocalPath) THEN LocalPath
  ELSE IF LocalAbsent /\ GlobalReadable THEN GlobalPath
  ELSE ""

SelectedHasNoWebhook(global) ==
  SelectedPath(global) # "" /\ SettingsAt(SelectedPath(global)).WebhookURL = <<>>

\* C21: handleNotify treats an empty resolved endpoint as a terminal
\* error: when no webhook is given on the command line and no config file
\* is found, or the config file selected by the precedence policy has an
\* empty webhook URL, it returns an error and no HTTP request is sent.
C21_EmptyEndpointIsAnError ==
  (res.op = "handleNotify" /\ NoWebhookArgument
     /\ (NoConfigFile \/ SelectedHasNoWebhook(res.global)))
    => (res.err = "nowebhook" /\ res.sent = Nil)

C21_Witness ==
  /\ LocalAbsent /\ GlobalReadable /\ SettingsAt(GlobalPath).WebhookURL = <<>>
  /\ prev.op = "handleNotify" /\ prev.global /\ prev.argConfig = Ptr(EmptyConfig)
  /\ prev.err = "nowebhook" /\ prev.sent = Nil
  /\ Notified(FALSE) /\ NoWebhookArgument
  /\ res.err = "nowebhook" /\ res.sent = Nil

\* C22: a webhook URL given on the command line overrides the config:
\* handleNotify posts the notification to the command-line URL whatever
\* webhook URL the local or the global config file holds, and it succeeds
\* with a command-line URL even when no config file exists at all.
C22_ArgumentOverridesConfig ==
  (res.op = "handleNotify" /\ ~NoWebhookArgument)
    => /\ res.sent = Ptr(res.argConfig[1].WebhookURL)
       /\ res.response = "204" => res.err = "none"

C22_Witness ==
  /\ Readable(LocalPath) /\ SettingsAt(LocalPath).WebhookURL = <<PLAIN>>
  /\ GlobalReadable /\ SettingsAt(GlobalPath).WebhookURL = <<QUOTE>>
  /\ res.op = "handleNotify" /\ res.argConfig[1].WebhookURL = <<PLAIN, QUOTE>>
  /\ res.sent = Ptr(<<PLAIN, QUOTE>>) /\ res.response = "204" /\ res.err = "none"

(***************************************************************************)
(* Parse: one call with an argument list of up to MaxArgs arguments.       *)
(***************************************************************************)
InitCLI ==
  /\ fs = [p \in Paths |-> Absent]
  /\ gdir = "missing"
  /\ homeOK = TRUE
  /\ prev = NoCall
  /\ res = NoCall

CallParse ==
  /\ res.op = "none"
  /\ \E args \in ArgLists(MaxArgs) :
       LET r == Parse(args)
       IN res' = [Result("Parse", FALSE, "", Nil, "", Nil, FALSE, r.err)
                    EXCEPT !.argv = args, !.parsed = r.parsed]
  /\ prev' = res
  /\ UNCHANGED <<fs, gdir, homeOK>>

NextCLI == CallParse

SpecCLI == InitCLI /\ [][NextCLI]_vars

Parsed == res.op = "Parse"

Names(args) == {args[i].name : i \in 1..Len(args)}

\* C23: Parse gives the help and version flags precedence over everything
\* else: if any argument, at any position, is --help, -h, --version or -v,
\* the result is the ShowHelp or ShowVersion command, decided by the first
\* such argument in order, with no error, whatever command or other
\* arguments are present; an empty argument list is an error.
C23_HelpAndVersionFirst ==
  Parsed =>
    /\ res.argv = <<>> => (res.err # "none" /\ res.parsed = Nil)
    /\ \A i \in 1..Len(res.argv) :
         (/\ res.argv[i].name \in HelpFlags \cup VersionFlags
          /\ \A j \in 1..(i - 1) : res.argv[j].name \notin HelpFlags \cup VersionFlags)
           => /\ res.err = "none"
              /\ res.parsed = Ptr(CliArgs(IF res.argv[i].name \in HelpFlags
                                           THEN "ShowHelp" ELSE "ShowVersion"))

C23_Witness ==
  /\ Parsed
  /\ res.argv = <<Word("init"), Word("-v"), Word("--help")>>
  /\ res.err = "none"
  /\ res.parsed = Ptr(CliArgs("ShowVersion"))

\* the argument list's command is init
CommandIsInit ==
  /\ Parsed /\ res.argv # <<>>
  /\ res.argv[1].name = "init"
  /\ Names(res.argv) \cap (HelpFlags \cup VersionFlags) = {}

CommandNodes == NotifyNodes \cup {Denied}

\* the values --webhook=, --username= and --avatar= give handleConfig
ConfigValues == {<<>>, <<PLAIN, PLAIN>>}

InitCommand ==
  /\ fs \in [Paths -> CommandNodes]
  /\ gdir \in {"missing", "present", "blocked"}
  /\ gdir # "present" => fs[GlobalPath] = Absent
  /\ homeOK \in BOOLEAN
  /\ prev = NoCall
  /\ res = NoCall

\* the step of a handleInit call that returned r
InitReturns(global, r) ==
  /\ res' = [Result("handleInit", global, "", Nil, r.path, Nil, FALSE, r.err)
               EXCEPT !.output = r.output, !.loads = r.loads, !.saves = r.saves]
  /\ prev' = res
  /\ Install(r.env)

RunInit ==
  /\ res.op = "none"
  /\ \E global \in BOOLEAN : InitReturns(global, handleInit(Env, global))

RunConfig ==
  /\ res.op = "none"
  /\ \E global \in BOOLEAN, webhookURL \in ConfigValues, username \in ConfigValues,
        avatarURL \in ConfigValues :
       handleConfigStep(Args(global, webhookURL, username, avatarURL))

RunNotify ==
  /\ res.op = "none"
  /\ CallHandleNotify

NextCommand ==
  \/ RunInit
  \/ RunConfig
  \/ RunNotify

SpecCommand == InitCommand /\ [][NextCommand]_vars

\* this step is the config update command
ConfigUpdated ==
  /\ res'.op = "handleConfig" /\ prev' = res
  /\ res'.argConfig # Ptr(EmptyConfig)

\* the location the command's selector names, and the other one
SelectedLocation == IF res'.global THEN GlobalPath ELSE LocalPath
OtherLocation == IF res'.global THEN LocalPath ELSE GlobalPath

GivenArgs ==
  Args(res'.global, res'.argConfig[1].WebhookURL, res'.argConfig[1].Username,
       res'.argConfig[1].AvatarURL)

\* C25: the config update command changes only the fields given on the
\* command line in the file at the selected location: every field not
\* given keeps the value previously stored there, and the file at the other
\* location is left unchanged.
C25_UpdateChangesOnlyGivenFields ==
  [][ConfigUpdated =>
       /\ fs'[OtherLocation] = fs[OtherLocation]
       /\ (Readable(SelectedLocation) /\ res'.err = "none")
            => /\ Stat(Env', SelectedLocation) = "file"
               /\ Unmarshal(fs'[SelectedLocation].text).config
                    = UpdateConfig(SettingsAt(SelectedLocation), GivenArgs)
    ]_vars

\* the file at the selected location exists but does not load
ExistsButDoesNotLoad ==
  /\ Stat(Env, SelectedLocation) \in {"file", "denied"}
  /\ ~Readable(SelectedLocation)

\* C26: the config update command starts from an empty Settings only when
\* the file at the selected location does not exist; when that file exists
\* but cannot be read or parsed, handleConfig returns the error and does
\* not overwrite the file.
C26_UnreadableFileIsKept ==
  [][(ConfigUpdated /\ homeOK /\ ExistsButDoesNotLoad)
       => (res'.err # "none" /\ fs' = fs)
    ]_vars

\* C27 as stated: one command invocation (init, config show, config
\* update, or notify) performs at most one configuration load and at most
\* one configuration save.
C27_OneLoadOneSave ==
  res.op \in {"handleInit", "handleConfig", "handleNotify"}
    => (res.loads <= 1 /\ res.saves <= 1)

\* C27, amended: init and config show perform at most one load, config
\* update and notify at most two: config update loads the file again for
\* the summary after a successful save, and notify without the global flag
\* loads a second time when its first load fails.  No command performs more
\* than one save, and config show and notify perform none.
C27_TwoLoadsOneSave ==
  /\ res.op = "handleInit" => (res.loads <= 1 /\ res.saves <= 1)
  /\ (res.op = "handleConfig" /\ res.argConfig = Ptr(EmptyConfig))
       => (res.loads <= 1 /\ res.saves = 0)
  /\ (res.op = "handleConfig" /\ res.argConfig # Ptr(EmptyConfig))
       => /\ res.loads <= 2 /\ res.saves <= 1
          /\ res.loads = 2 => (res.saves = 1 /\ Stat(Env, res.path) = "file")
  /\ res.op = "handleNotify"
       => /\ res.loads <= 2 /\ res.saves = 0
          /\ res.loads = 2 => (~res.global /\ SelectedPath(FALSE) = "")

C27_Witness ==
  /\ res.op = "handleConfig" /\ res.argConfig # Ptr(EmptyConfig)
  /\ res.err = "none" /\ res.loads = 2 /\ res.saves = 1

\* the path GetPath(true) gives: the global one, or the local name when the
\* home directory cannot be resolved
ResolvedGlobal == IF homeOK THEN GlobalPath ELSE LocalPath

IsFile(p) == Stat(Env, p) \in {"file", "denied"}

\* the file the precedence policy selects from the files present now
PolicyPath(preferGlobal) ==
  IF preferGlobal /\ IsFile(ResolvedGlobal) THEN ResolvedGlobal
  ELSE IF IsFile(LocalPath) THEN LocalPath
  ELSE IF IsFile(ResolvedGlobal) THEN ResolvedGlobal
  ELSE ""

\* C28: the Manager holds no state between operations: whatever Save,
\* CreateTemplate, Load and file removals came before, the result of Load
\* is determined by preferGlobal and the files present at that moment.
\* With both files present Load(false) returns the local one and
\* Load(true) the global one; with the local file gone Load(false) returns
\* the global one.
C28_LoadSeesOnlyTheFiles ==
  res.op = "Load" =>
    /\ res.path = PolicyPath(res.global)
    /\ res.path = "" => (res.err = "notfound" /\ res.config = Nil)
    /\ (res.path # "" /\ Readable(res.path))
         => (res.err = "none" /\ res.config = Ptr(SettingsAt(res.path)))
    /\ (res.path # "" /\ ~Readable(res.path))
         => (res.err \in {"read", "parse"} /\ res.config = Nil)
    /\ (homeOK /\ IsFile(LocalPath) /\ IsFile(GlobalPath))
         => res.path = IF res.global THEN GlobalPath ELSE LocalPath
    /\ (homeOK /\ ~res.global /\ LocalAbsent /\ IsFile(GlobalPath))
         => res.path = GlobalPath

\* the local file was removed after a call that used it, and Load(false) now
\* returns the global file
C28_Witness ==
  /\ prev.op = "outside"
  /\ res.op = "Load" /\ ~res.global
  /\ homeOK /\ LocalAbsent /\ Readable(GlobalPath)
  /\ res.err = "none" /\ res.path = GlobalPath

\* C29: Load does not fall back on content errors: when the selected file
\* exists but is malformed, Load returns the parse error together with the
\* selected path and no Settings, even if the other location holds a valid
\* file.
C29_NoFallbackOnContentError ==
  (res.op = "Load" /\ PolicyPath(res.global) # "" /\ Unparsable(PolicyPath(res.global)))
    => /\ res.err = "parse"
       /\ res.path = PolicyPath(res.global)
       /\ res.config = Nil

C29_Witness ==
  /\ res.op = "Load" /\ ~res.global /\ homeOK
  /\ Unparsable(LocalPath) /\ Readable(GlobalPath)
  /\ res.err = "parse" /\ res.path = LocalPath /\ res.config = Nil

\* the file the precedence policy names: an explicit global request is
\* strict, the default prefers the local file and falls back to the global
NotifyPolicyPath(global) ==
  IF global THEN (IF homeOK /\ IsFile(GlobalPath) THEN GlobalPath ELSE "")
  ELSE IF IsFile(LocalPath) THEN LocalPath
  ELSE IF homeOK /\ IsFile(GlobalPath) THEN GlobalPath
  ELSE ""

\* p is a file whose settings hold a webhook URL
HasWebhook(p) == p # "" /\ Readable(p) /\ SettingsAt(p).WebhookURL # <<>>

\* C30: handleNotify takes the webhook URL, username and avatar from
\* exactly one config file, the one selected by the precedence policy, and
\* never merges fields across files: without a command-line webhook it
\* posts to the selected file's webhook URL with that file's settings, and
\* when the selected file has no webhook URL (or there is none) it fails
\* and sends nothing, even when the other file holds a webhook URL.
C30_OnlyThePolicyFile ==
  (res.op = "handleNotify" /\ NoWebhookArgument) =>
    IF HasWebhook(NotifyPolicyPath(res.global))
    THEN /\ res.sent = Ptr(SettingsAt(NotifyPolicyPath(res.global)).WebhookURL)
         /\ res.config = Ptr(SettingsAt(NotifyPolicyPath(res.global)))
    ELSE res.sent = Nil /\ res.err = "nowebhook"

====
